---- MODULE Spec2Model ----
(***************************************************************************)
(* The two report scripts project_gm.py and project_gp.py as one state     *)
(* machine.  A run executes the script's statements top to bottom: load    *)
(* the two CSV files, clean the tables, then for each chart compute its    *)
(* aggregate and render it to an image file, then build the slide deck and *)
(* save it.  A statement that raises ends the run.                         *)
(*                                                                         *)
(* Representation.  A table is a sequence of records.  A missing value     *)
(* (NaN / NaT) of a numeric column is NA, a string is a sequence of        *)
(* one-character strings and a missing string is NAs.  Companies,          *)
(* industries, countries and residences are integer codes whose numeric    *)
(* order stands for the alphabetical order of the names.  A median is      *)
(* kept doubled (Median2) so that it stays an integer.                     *)
(***************************************************************************)
EXTENDS Integers, Sequences, FiniteSets, TLC

VARIABLES
    script,        \* "gm" or "gp": which script runs
    sortTies,      \* how this build's unstable sort orders equal values
    pc,            \* index of the next statement of the script
    status,        \* "running", "done", "exited" (exit()), "crashed" (uncaught)
    fsLayoffs,     \* layoffs.csv
    fsJobs,        \* jobs_in_data.csv
    layoffs, jobs, \* the two tables in memory
    aggs,          \* the aggregates computed so far, by variable name
    images,        \* the image files written by this run
    figure_paths,  \* project_gp: key -> path of a saved figure
    prs,           \* the slides of the presentation being built
    deck,          \* the saved .pptx file
    out,           \* what the script itself printed about a failure
    log            \* the statements executed so far

vars == <<script, sortTies, pc, status, fsLayoffs, fsJobs, layoffs, jobs, aggs,
          images, figure_paths, prs, deck, out, log>>

-----------------------------------------------------------------------------
(* Bounds of the model *)

MaxRows == 3
MaxWide == 17
MaxResidences == 11

-----------------------------------------------------------------------------
(* Missing values *)

NA == -1
BAD == -2
NAs == <<"<NA>">>
NaT == [y |-> NA, m |-> NA]
BadDate == [y |-> BAD, m |-> BAD]

-----------------------------------------------------------------------------
(* Sequences *)

Range(s) == {s[i] : i \in DOMAIN s}

Head_(s, n) == SubSeq(s, 1, IF Len(s) < n THEN Len(s) ELSE n)

RECURSIVE SeqsUpTo(_, _)
SeqsUpTo(S, n) ==
    IF n = 0 THEN {<<>>}
    ELSE LET shorter == SeqsUpTo(S, n - 1)
         IN  shorter \cup {Append(t, x) : t \in {u \in shorter : Len(u) = n - 1}, x \in S}

-----------------------------------------------------------------------------
(* Strings: str.strip and str.title of Python, character by character *)

Lower == <<"a","b","c","d","e","f","g","h","i","j","k","l","m",
           "n","o","p","q","r","s","t","u","v","w","x","y","z">>
Upper == <<"A","B","C","D","E","F","G","H","I","J","K","L","M",
           "N","O","P","Q","R","S","T","U","V","W","X","Y","Z">>

IsLower(c) == c \in Range(Lower)
IsUpper(c) == c \in Range(Upper)
IsCased(c) == IsLower(c) \/ IsUpper(c)
IsSpace(c) == c \in {" ", "\t", "\n"}

ToUpper(c) == IF IsLower(c) THEN Upper[CHOOSE i \in DOMAIN Lower : Lower[i] = c] ELSE c
ToLower(c) == IF IsUpper(c) THEN Lower[CHOOSE i \in DOMAIN Upper : Upper[i] = c] ELSE c

RECURSIVE LStrip(_)
LStrip(s) == IF s # <<>> /\ IsSpace(Head(s)) THEN LStrip(Tail(s)) ELSE s

RECURSIVE RStrip(_)
RStrip(s) ==
    IF s # <<>> /\ IsSpace(s[Len(s)]) THEN RStrip(SubSeq(s, 1, Len(s) - 1)) ELSE s

\* Series.str.strip(): a missing value stays missing
StrStrip(s) == IF s = NAs THEN NAs ELSE RStrip(LStrip(s))

\* Series.str.title(): a cased character is upper-cased when the character
\* before it is not cased (or there is none) and lower-cased otherwise
StrTitle(s) ==
    IF s = NAs THEN NAs
    ELSE [i \in DOMAIN s |->
             IF i = 1 \/ ~IsCased(s[i - 1]) THEN ToUpper(s[i]) ELSE ToLower(s[i])]

-----------------------------------------------------------------------------
(* Series and group-by.  A Series is a sequence of <<key, value>> pairs in  *)
(* index order.  Keys are numbers (kind "int") or strings (kind "str").     *)

Col(t, col) == [i \in 1..Len(t) |-> t[i][col]]

Pairs(t, kcol, vcol) == [i \in 1..Len(t) |-> <<t[i][kcol], t[i][vcol]>>]

KeysOf(ps) == [i \in 1..Len(ps) |-> ps[i][1]]

NaOf(kind) == IF kind = "int" THEN NA ELSE NAs

CharOrder == <<"\t", "\n", " ", "-">> \o Upper \o Lower
CharRank(c) == CHOOSE i \in DOMAIN CharOrder : CharOrder[i] = c

RECURSIVE StrLeq(_, _)
StrLeq(a, b) ==
    IF a = <<>> THEN TRUE
    ELSE IF b = <<>> THEN FALSE
    ELSE IF Head(a) = Head(b) THEN StrLeq(Tail(a), Tail(b))
    ELSE CharRank(Head(a)) < CharRank(Head(b))

Leq(kind, a, b) == IF kind = "int" THEN a <= b ELSE StrLeq(a, b)

\* the elements of S in ascending order
Sorted(S, kind) ==
    [i \in 1..Cardinality(S) |->
        CHOOSE x \in S : Cardinality({y \in S : Leq(kind, y, x)}) = i]

\* groupby(key): the distinct keys, missing keys dropped, sorted
GroupKeys(ps, kind) == Sorted({ps[i][1] : i \in DOMAIN ps} \ {NaOf(kind)}, kind)

\* the values of group k, in row order, missing values skipped
ValuesOf(ps, k) ==
    LET InGroup(p) == p[1] = k /\ p[2] # NA
        sel == SelectSeq(ps, InGroup)
    IN  [i \in 1..Len(sel) |-> sel[i][2]]

RECURSIVE SumSeq(_)
SumSeq(vs) == IF vs = <<>> THEN 0 ELSE Head(vs) + SumSeq(Tail(vs))

\* sort of a sequence of numbers, ascending
SortNums(vs) ==
    LET Pos(i) == Cardinality({j \in DOMAIN vs : vs[j] < vs[i]})
                  + Cardinality({j \in DOMAIN vs : j < i /\ vs[j] = vs[i]}) + 1
    IN  [r \in 1..Len(vs) |-> vs[CHOOSE i \in DOMAIN vs : Pos(i) = r]]

\* twice Series.median(): the middle value, or the mean of the two middle
\* values; NA for no values
Median2(vs) ==
    LET s == SortNums(vs)
        n == Len(vs)
    IN  IF n = 0 THEN NA
        ELSE IF n % 2 = 1 THEN 2 * s[(n + 1) \div 2]
        ELSE s[n \div 2] + s[n \div 2 + 1]

\* mutant: the groups are counted, not summed
GroupSum_count(ps, kind) ==
    LET ks == GroupKeys(ps, kind)
    IN  [i \in 1..Len(ks) |-> <<ks[i], Len(ValuesOf(ps, ks[i]))>>]

\* groupby(key)[value].sum(): NaN values are skipped, an all-NaN group sums to 0
GroupSum(ps, kind) ==
    LET ks == GroupKeys(ps, kind)
    IN  [i \in 1..Len(ks) |-> <<ks[i], SumSeq(ValuesOf(ps, ks[i]))>>]

\* groupby(key)[value].median()
GroupMedian2(ps, kind) ==
    LET ks == GroupKeys(ps, kind)
    IN  [i \in 1..Len(ks) |-> <<ks[i], Median2(ValuesOf(ps, ks[i]))>>]

\* Series.dropna() / DataFrame.dropna() after reset_index()
DropNaPairs(ps, kind) ==
    LET Complete(p) == p[1] # NaOf(kind) /\ p[2] # NA IN SelectSeq(ps, Complete)

\* mutant: ascending=False is left out
SortDesc_ascending(ps, ties) ==
    LET Before(j, i) ==
            \/ ps[j][2] # NA /\ ps[i][2] = NA
            \/ ps[j][2] # NA /\ ps[i][2] # NA /\ ps[j][2] < ps[i][2]
            \/ /\ ps[j][2] = ps[i][2]
               /\ IF ties = "stable" THEN j < i ELSE j > i
        Pos(i) == Cardinality({j \in DOMAIN ps : Before(j, i)}) + 1
    IN  [r \in 1..Len(ps) |-> ps[CHOOSE i \in DOMAIN ps : Pos(i) = r]]

\* sort_values(ascending=False) with the default kind="quicksort": by value,
\* descending, missing values last.  The sort is not stable; equal values
\* come out in their original order ("stable", what the insertion sort of
\* short arrays yields) or not ("reversed")
SortDesc(ps, ties) ==
    LET Before(j, i) ==
            \/ ps[j][2] # NA /\ ps[i][2] = NA
            \/ ps[j][2] # NA /\ ps[i][2] # NA /\ ps[j][2] > ps[i][2]
            \/ /\ ps[j][2] = ps[i][2]
               /\ IF ties = "stable" THEN j < i ELSE j > i
        Pos(i) == Cardinality({j \in DOMAIN ps : Before(j, i)}) + 1
    IN  [r \in 1..Len(ps) |-> ps[CHOOSE i \in DOMAIN ps : Pos(i) = r]]

\* the distinct non-missing keys in order of first appearance
RECURSIVE FirstSeen(_, _)
FirstSeen(ks, na) ==
    IF ks = <<>> THEN <<>>
    ELSE LET rest == FirstSeen(SubSeq(ks, 1, Len(ks) - 1), na)
             k == ks[Len(ks)]
         IN  IF k = na \/ k \in Range(rest) THEN rest ELSE Append(rest, k)

\* Series.value_counts(): the count of each non-missing value, largest first
ValueCounts(ks, kind, ties) ==
    LET seen == FirstSeen(ks, NaOf(kind))
        counts == [i \in 1..Len(seen) |->
                      <<seen[i], Cardinality({j \in DOMAIN ks : ks[j] = seen[i]})>>]
    IN  SortDesc(counts, ties)

exp_order_gm == << <<"E","n","t","r","y","-","L","e","v","e","l">>,
                   <<"M","i","d","-","L","e","v","e","l">>,
                   <<"S","e","n","i","o","r">>,
                   <<"E","x","e","c","u","t","i","v","e">> >>
exp_order_gp == << <<"E","n","t","r","y","-","l","e","v","e","l">>,
                   <<"M","i","d","-","l","e","v","e","l">>,
                   <<"S","e","n","i","o","r">>,
                   <<"E","x","e","c","u","t","i","v","e">> >>
exp_order(sc) == IF sc = "gm" THEN exp_order_gm ELSE exp_order_gp

-----------------------------------------------------------------------------
(* Cleaning *)

YearMonthNaT == 999999

\* dt.to_period("M").astype(str): "YYYY-MM" as the number YYYYMM; a missing
\* date becomes the string "NaT", which sorts after every "YYYY-MM"
YearMonth(d) == IF d = NaT THEN YearMonthNaT ELSE d.y * 100 + d.m

DateKey(r) == IF r.date = NaT THEN NA ELSE r.date.y * 100 + r.date.m

\* layoffs.sort_values("date"): ascending, NaT last; the order of equal dates
\* is the sort's (see SortDesc)
sort_by_date(t, ties) ==
    LET Before(j, i) ==
            \/ DateKey(t[j]) # NA /\ DateKey(t[i]) = NA
            \/ DateKey(t[j]) # NA /\ DateKey(t[i]) # NA /\ DateKey(t[j]) < DateKey(t[i])
            \/ /\ DateKey(t[j]) = DateKey(t[i])
               /\ IF ties = "stable" THEN j < i ELSE j > i
        Pos(i) == Cardinality({j \in DOMAIN t : Before(j, i)}) + 1
    IN  [r \in 1..Len(t) |-> t[CHOOSE i \in DOMAIN t : Pos(i) = r]]

\* pd.to_datetime: project_gm raises on a date it cannot parse,
\* project_gp (errors="coerce") turns it into NaT
ToDatetimeRaises(sc, t) == sc = "gm" /\ \E i \in DOMAIN t : t[i].date = BadDate

ToDatetime(d) == IF d = BadDate THEN NaT ELSE d

WithDateFields(r) ==
    LET d == ToDatetime(r.date)
    IN  [company |-> r.company, industry |-> r.industry, country |-> r.country,
         date |-> d, total_laid_off |-> r.total_laid_off,
         percentage_laid_off |-> r.percentage_laid_off,
         funds_raised |-> r.funds_raised, stage |-> r.stage,
         year |-> d.y, month |-> d.m, year_month |-> YearMonth(d)]

clean_layoffs(sc, t, ties) ==
    LET parsed == [i \in 1..Len(t) |-> WithDateFields(t[i])]
    IN  IF sc = "gp" THEN sort_by_date(parsed, ties) ELSE parsed

\* astype(int) raises on a missing work_year; it runs before dropna
AsTypeIntRaises(t) == \E i \in DOMAIN t : t[i].work_year = NA

\* mutant: the dropna is left out
dropna_salary_omitted(t) == t

\* jobs.dropna(subset=["salary_in_usd"])
dropna_salary(t) ==
    LET HasSalary(r) == r.salary_in_usd # NA IN SelectSeq(t, HasSalary)

\* mutant: the labels are trimmed but not title-cased
clean_labels_strip_only(df, col) ==
    [i \in 1..Len(df) |-> [df[i] EXCEPT ![col] = StrStrip(@)]]

clean_labels(df, col) ==
    [i \in 1..Len(df) |-> [df[i] EXCEPT ![col] = StrTitle(StrStrip(@))]]

\* mutant: the abbreviations are not mapped
replace_exp_none(v) == v

\* jobs['experience_level'].replace({'En': ..., 'Mi': ..., 'Se': ..., 'Ex': ...})
replace_exp(v) ==
    CASE v = <<"E","n">> -> exp_order_gm[1]
      [] v = <<"M","i">> -> exp_order_gm[2]
      [] v = <<"S","e">> -> exp_order_gm[3]
      [] v = <<"E","x">> -> exp_order_gm[4]
      [] OTHER -> v

clean_jobs_gm(t) ==
    LET a == dropna_salary(t)
        b == clean_labels(a, "job_category")
        c == clean_labels(b, "experience_level")
        d == clean_labels(c, "work_setting")
    IN  [i \in 1..Len(d) |->
            [d[i] EXCEPT !.experience_level = replace_exp(@)]]

clean_jobs_gp(t) ==
    LET a == dropna_salary(t)
    IN  [i \in 1..Len(a) |->
            [work_year |-> a[i].work_year, job_category |-> a[i].job_category,
             experience_level |-> a[i].experience_level,
             work_setting |-> a[i].work_setting, company_size |-> a[i].company_size,
             employee_residence |-> a[i].employee_residence,
             salary_in_usd |-> a[i].salary_in_usd,
             job_category_clean |-> StrStrip(a[i].job_category),
             experience_level_clean |-> StrStrip(a[i].experience_level),
             work_setting_clean |-> StrStrip(a[i].work_setting),
             company_size_clean |-> StrStrip(a[i].company_size)]]

clean_jobs(sc, t) == IF sc = "gm" THEN clean_jobs_gm(t) ELSE clean_jobs_gp(t)

\* pd.Categorical(values, categories=exp_order): a value that is no category
\* becomes missing
\* mutant: the records whose level is no category are dropped
recast_dropping(t) ==
    LET Known(r) == r.experience_level_clean \in Range(exp_order_gp)
    IN  SelectSeq(t, Known)

\* pd.Categorical(column, categories=exp_order, ordered=True): a value that
\* is no category becomes missing
recast(t) ==
    [i \in 1..Len(t) |->
        [t[i] EXCEPT !.experience_level_clean =
            IF @ \in Range(exp_order_gp) THEN @ ELSE NAs]]

-----------------------------------------------------------------------------
(* Aggregates *)

TopCompanies == 15
TopIndustries == 12
TopCountries == 10
TopBoxplotIndustries == 8
TopCategories == 10
TopResidences == 10

\* groupby(col)["total_laid_off"].sum()
layoffs_by(L, col) == GroupSum(Pairs(L, col, "total_laid_off"), "int")

\* ... .sort_values(ascending=False).head(n)
top_layoffs(L, col, n, ties) == Head_(SortDesc(layoffs_by(L, col), ties), n)

\* the rows of the industries with the most rows, as <<industry, percentage>>
perc_rows(ps, ties) ==
    LET top == Range(KeysOf(Head_(ValueCounts(KeysOf(ps), "int", ties),
                                  TopBoxplotIndustries)))
        InTop(p) == p[1] \in top
    IN  SelectSeq(ps, InTop)

\* groupby(col)["salary_in_usd"].median()
salary_by(J, col, kind) == GroupMedian2(Pairs(J, col, "salary_in_usd"), kind)

\* the salaries of each experience level of the given order
salary_by_level(J, col, order) ==
    [i \in 1..Len(order) |->
        <<order[i], SortNums(ValuesOf(Pairs(J, col, "salary_in_usd"), order[i]))>>]

\* mutant: the counts are divided by the total of the table (normalize="all")
setting_share_of_all(J, col) ==
    LET HasSetting(r) == r[col] # NAs
        rows == SelectSeq(J, HasSetting)
        years == Sorted({rows[i].work_year : i \in DOMAIN rows}, "int")
        settings == Sorted({rows[i][col] : i \in DOMAIN rows}, "str")
        Count(y, w) == Cardinality({i \in DOMAIN rows :
                                      rows[i].work_year = y /\ rows[i][col] = w})
    IN  [index |-> years, columns |-> settings,
         cell |-> [yw \in Range(years) \X Range(settings) |->
                      <<Count(yw[1], yw[2]), Len(rows)>>]]

\* pd.crosstab(year, setting, normalize="index"), and project_gp's
\* groupby().size() / pivot / fillna(0) / div: each cell is <<count, row total>>
setting_share(J, col) ==
    LET HasSetting(r) == r[col] # NAs
        rows == SelectSeq(J, HasSetting)
        years == Sorted({rows[i].work_year : i \in DOMAIN rows}, "int")
        settings == Sorted({rows[i][col] : i \in DOMAIN rows}, "str")
        Count(y, w) == Cardinality({i \in DOMAIN rows :
                                      rows[i].work_year = y /\ rows[i][col] = w})
        RowTotal(y) == SumSeq([k \in 1..Len(settings) |-> Count(y, settings[k])])
    IN  [index |-> years, columns |-> settings,
         cell |-> [yw \in Range(years) \X Range(settings) |->
                      <<Count(yw[1], yw[2]), RowTotal(yw[1])>>]]

\* median salary per experience level (the rows, in the given order) and
\* year (the columns): pivot_table(...).reindex(exp_order) / groupby().pivot()
salary_heatmap(J, col, order) ==
    LET HasLevel(r) == r[col] # NAs
        years == Sorted({r.work_year : r \in Range(SelectSeq(J, HasLevel))}, "int")
        Cell(e, y) ==
            LET Here(r) == r[col] = e /\ r.work_year = y
            IN  Median2(Col(SelectSeq(J, Here), "salary_in_usd"))
    IN  [index |-> order, columns |-> years,
         cell |-> [ey \in Range(order) \X Range(years) |-> Cell(ey[1], ey[2])]]

\* pivot_table(index="year", columns="month", aggfunc="sum").fillna(0) of the
\* rows that have a year, a month and a count
layoffs_heatmap(L) ==
    LET Complete(r) == r.year # NA /\ r.month # NA /\ r.total_laid_off # NA
        rows == SelectSeq(L, Complete)
        years == Sorted({rows[i].year : i \in DOMAIN rows}, "int")
        months == Sorted({rows[i].month : i \in DOMAIN rows}, "int")
        Cell(y, m) ==
            LET Here(r) == r.year = y /\ r.month = m
            IN  SumSeq(Col(SelectSeq(rows, Here), "total_laid_off"))
    IN  [index |-> years, columns |-> months,
         cell |-> [ym \in Range(years) \X Range(months) |-> Cell(ym[1], ym[2])]]

\* plt.imshow(pivot): the matrix column drawn at x position pos (from 0) is
\* the column of the table at that position; past the last column nothing
\* is drawn (NA)
imshow_column(pv, pos) ==
    [y \in Range(pv.index) |->
        IF pos + 1 <= Len(pv.columns) THEN pv.cell[<<y, pv.columns[pos + 1]>>] ELSE NA]

\* plt.xticks(ticks=np.arange(0, 12), labels=range(1, 13)): the x position
\* that carries the label m
xtick_position(m) == m - 1

\* mutant: the medians are left in the order of the keys
salary_of_most_frequent_unsorted(J, col, kind, n, ties) ==
    LET top == Range(KeysOf(Head_(ValueCounts(Col(J, col), kind, ties), n)))
        InTop(r) == r[col] \in top
    IN  salary_by(SelectSeq(J, InTop), col, kind)

\* the median salary of the n most frequent keys, largest median first
salary_of_most_frequent(J, col, kind, n, ties) ==
    LET top == Range(KeysOf(Head_(ValueCounts(Col(J, col), kind, ties), n)))
        InTop(r) == r[col] \in top
    IN  SortDesc(salary_by(SelectSeq(J, InTop), col, kind), ties)

\* scatter_df = layoffs[["funds_raised", "total_laid_off", "stage"]].dropna()
scatter_rows(L) ==
    LET Complete(r) == r.funds_raised # NA /\ r.total_laid_off # NA /\ r.stage # NA
        rows == SelectSeq(L, Complete)
    IN  [i \in 1..Len(rows) |->
            <<rows[i].funds_raised, rows[i].total_laid_off, rows[i].stage>>]

AggGM(name, L, J, ties) ==
    CASE name = "monthly_layoffs" -> DropNaPairs(layoffs_by(L, "year_month"), "int")
      [] name = "yearly_layoffs" -> layoffs_by(L, "year")
      [] name = "top_companies" -> top_layoffs(L, "company", TopCompanies, ties)
      [] name = "ind_layoffs" -> top_layoffs(L, "industry", TopIndustries, ties)
      [] name = "perc_data" ->
            perc_rows(Pairs(L, "industry", "percentage_laid_off"), ties)
      [] name = "country_layoffs" -> top_layoffs(L, "country", TopCountries, ties)
      [] name = "salary_hist" -> Col(J, "salary_in_usd")
      [] name = "salary_year" -> salary_by(J, "work_year", "int")
      [] name = "exp_salary" -> salary_by_level(J, "experience_level", exp_order_gm)
      [] name = "country_sal" ->
            Head_(SortDesc(salary_by(J, "employee_residence", "int"), ties),
                  TopResidences)
      [] name = "ws_counts" -> ValueCounts(Col(J, "work_setting"), "str", ties)
      [] name = "ws_year" -> setting_share(J, "work_setting")
      [] name = "heatmap_data" -> salary_heatmap(J, "experience_level", exp_order_gm)

AggGP(name, L, J, A, ties) ==
    CASE name = "monthly_layoffs" -> DropNaPairs(layoffs_by(L, "year_month"), "int")
      [] name = "yearly_layoffs" -> DropNaPairs(layoffs_by(L, "year"), "int")
      [] name = "company_layoffs" ->
            Head_(SortDesc(DropNaPairs(layoffs_by(L, "company"), "int"), ties),
                  TopCompanies)
      [] name = "industry_layoffs" ->
            SortDesc(DropNaPairs(layoffs_by(L, "industry"), "int"), ties)
      [] name = "top_industries" -> Head_(A["industry_layoffs"], TopIndustries)
      [] name = "perc_df" ->
            perc_rows(DropNaPairs(Pairs(L, "industry", "percentage_laid_off"), "int"),
                      ties)
      [] name = "country_layoffs" ->
            SortDesc(DropNaPairs(layoffs_by(L, "country"), "int"), ties)
      [] name = "top_countries_layoffs" -> Head_(A["country_layoffs"], TopCountries)
      [] name = "scatter_df" -> scatter_rows(L)
      [] name = "pivot" -> layoffs_heatmap(L)
      [] name = "salary_hist" -> Col(J, "salary_in_usd")
      [] name = "yearly_salary" -> salary_by(J, "work_year", "int")
      [] name = "exp_salary" ->
            LET NonEmpty(p) == p[2] # <<>>
            IN  SelectSeq(salary_by_level(J, "experience_level_clean", exp_order_gp),
                          NonEmpty)
      [] name = "median_salary_by_category" ->
            salary_of_most_frequent(J, "job_category_clean", "str", TopCategories, ties)
      [] name = "setting_counts" ->
            ValueCounts(Col(J, "work_setting_clean"), "str", ties)
      [] name = "pivot_setting_year_norm" -> setting_share(J, "work_setting_clean")
      [] name = "pivot_heat" ->
            salary_heatmap(J, "experience_level_clean", exp_order_gp)
      [] name = "median_salary_by_country" ->
            salary_of_most_frequent(J, "employee_residence", "int", TopResidences, ties)

ComputeAgg(sc, name, L, J, A, ties) ==
    IF sc = "gm" THEN AggGM(name, L, J, ties) ELSE AggGP(name, L, J, A, ties)

-----------------------------------------------------------------------------
(* The statements of the two scripts, in source order *)

Stmt(op, arg, key, title, nb) ==
    [op |-> op, arg |-> arg, key |-> key, title |-> title, nb |-> nb,
     uses |-> "", plot |-> ""]

AggS(name) == Stmt("agg", name, "", "", 0)
\* a chart: the image file, the figure_paths key (project_gp), the aggregate
\* the plotting code reads, or else the name under which a chart drawn
\* straight from a table records what it draws
RenderS(file, key, uses, plot) ==
    [Stmt("render", file, key, "", 0) EXCEPT !.uses = uses, !.plot = plot]
SlideS(title, nb, img) == Stmt("slide", img, "", title, nb)

IMG_DIR == "project_images"
FIG_DIR == "figures"
ProgramGM == <<
    Stmt("load", "", "", "", 0),
    Stmt("clean_layoffs", "", "", "", 0),
    Stmt("clean_jobs", "", "", "", 0),
    AggS("monthly_layoffs"),  RenderS("Slide_06_LayoffsMonthly.png", "", "monthly_layoffs", ""),
    AggS("yearly_layoffs"),   RenderS("Slide_07_LayoffsYearly.png", "", "yearly_layoffs", ""),
    AggS("top_companies"),    RenderS("Slide_08_TopCompanies.png", "", "top_companies", ""),
    AggS("ind_layoffs"),      RenderS("Slide_09_IndustryLayoffs.png", "", "ind_layoffs", ""),
    AggS("perc_data"),        RenderS("Slide_10_PercBoxplot.png", "", "perc_data", ""),
    AggS("country_layoffs"),  RenderS("Slide_11_CountryLayoffs.png", "", "country_layoffs", ""),
    RenderS("Slide_12_SalaryHist.png", "", "", "salary_hist"),
    AggS("salary_year"),      RenderS("Slide_13_SalaryTrend.png", "", "salary_year", ""),
    RenderS("Slide_14_ExpSalary.png", "", "", "exp_salary"),
    AggS("country_sal"),      RenderS("Slide_15_CountrySalary.png", "", "country_sal", ""),
    AggS("ws_counts"),        RenderS("Slide_16_WorkSettingPie.png", "", "ws_counts", ""),
    AggS("ws_year"),          RenderS("Slide_17_WorkSettingStack.png", "", "ws_year", ""),
    AggS("heatmap_data"),     RenderS("Slide_18_SalaryHeatmap.png", "", "heatmap_data", ""),
    Stmt("prs", "", "", "", 0),
    Stmt("title_slide", "", "", "Visualizing Tech Workforce Dynamics (2020-2025)", 0),
    SlideS("Why Study Tech Workforce Dynamics?", 4, ""),
    SlideS("Datasets Overview", 6, ""),
    SlideS("Tech Layoffs Over Time", 3, "Slide_06_LayoffsMonthly.png"),
    SlideS("Layoffs by Year", 3, "Slide_07_LayoffsYearly.png"),
    SlideS("Top 15 Companies by Layoffs", 3, "Slide_08_TopCompanies.png"),
    SlideS("Layoffs by Industry", 3, "Slide_09_IndustryLayoffs.png"),
    SlideS("Percentage Laid Off Distribution", 3, "Slide_10_PercBoxplot.png"),
    SlideS("Global Layoff Distribution", 3, "Slide_11_CountryLayoffs.png"),
    SlideS("Salary Distribution (Data Roles)", 3, "Slide_12_SalaryHist.png"),
    SlideS("Median Salary Growth", 3, "Slide_13_SalaryTrend.png"),
    SlideS("Salary by Experience Level", 3, "Slide_14_ExpSalary.png"),
    SlideS("Global Salary Disparities", 3, "Slide_15_CountrySalary.png"),
    SlideS("Work Setting Distribution", 3, "Slide_16_WorkSettingPie.png"),
    SlideS("Work Setting Evolution", 3, "Slide_17_WorkSettingStack.png"),
    SlideS("Salary Heatmap (Exp x Year)", 3, "Slide_18_SalaryHeatmap.png"),
    SlideS("Key Insights", 4, ""),
    SlideS("Conclusion", 3, ""),
    Stmt("save", "Tech_Workforce_Analysis.pptx", "", "", 0) >>

ProgramGP == <<
    Stmt("load", "", "", "", 0),
    Stmt("clean_layoffs", "", "", "", 0),
    Stmt("clean_jobs", "", "", "", 0),
    AggS("monthly_layoffs"),   RenderS("layoffs_monthly.png", "layoffs_monthly", "monthly_layoffs", ""),
    AggS("yearly_layoffs"),    RenderS("layoffs_yearly.png", "layoffs_yearly", "yearly_layoffs", ""),
    AggS("company_layoffs"),   RenderS("layoffs_top_companies.png", "layoffs_top_companies", "company_layoffs", ""),
    AggS("industry_layoffs"),  AggS("top_industries"),
                               RenderS("layoffs_industry.png", "layoffs_industry", "top_industries", ""),
    AggS("perc_df"),           RenderS("layoffs_percentage_industry.png", "layoffs_percentage_industry", "perc_df", ""),
    AggS("country_layoffs"),   AggS("top_countries_layoffs"),
                               RenderS("layoffs_country.png", "layoffs_country", "top_countries_layoffs", ""),
    AggS("scatter_df"),        RenderS("layoffs_funds_scatter.png", "layoffs_funds_scatter", "scatter_df", ""),
    AggS("pivot"),             RenderS("layoffs_heatmap_time.png", "layoffs_heatmap_time", "pivot", ""),
    RenderS("jobs_salary_distribution.png", "jobs_salary_distribution", "", "salary_hist"),
    AggS("yearly_salary"),     RenderS("jobs_salary_by_year.png", "jobs_salary_by_year", "yearly_salary", ""),
    Stmt("recast", "experience_level_clean", "", "", 0),
    RenderS("jobs_salary_by_experience.png", "jobs_salary_by_experience", "", "exp_salary"),
    AggS("median_salary_by_category"),
                               RenderS("jobs_salary_by_category.png", "jobs_salary_by_category", "median_salary_by_category", ""),
    AggS("setting_counts"),    RenderS("jobs_work_setting_pie.png", "jobs_work_setting_pie", "setting_counts", ""),
    AggS("pivot_setting_year_norm"),
                               RenderS("jobs_work_setting_by_year.png", "jobs_work_setting_by_year", "pivot_setting_year_norm", ""),
    AggS("pivot_heat"),        RenderS("jobs_salary_heatmap.png", "jobs_salary_heatmap", "pivot_heat", ""),
    AggS("median_salary_by_country"),
                               RenderS("jobs_salary_by_country.png", "jobs_salary_by_country", "median_salary_by_country", ""),
    Stmt("prs", "", "", "", 0),
    SlideS("Visualizing Tech Workforce Dynamics (2020-2025)", 2, ""),
    SlideS("Why Study Tech Workforce Dynamics?", 3, ""),
    SlideS("Datasets Used", 3, ""),
    SlideS("Tech Layoffs Over Time", 2, "layoffs_monthly"),
    SlideS("Yearly Layoff Totals", 2, "layoffs_yearly"),
    SlideS("Companies with the Highest Layoffs", 2, "layoffs_top_companies"),
    SlideS("Layoffs by Industry", 2, "layoffs_industry"),
    SlideS("Layoff Percentage by Industry", 2, "layoffs_percentage_industry"),
    SlideS("Layoffs by Country", 2, "layoffs_country"),
    SlideS("Funding Versus Layoffs", 2, "layoffs_funds_scatter"),
    SlideS("Layoffs Heatmap by Year and Month", 2, "layoffs_heatmap_time"),
    SlideS("Salary Distribution in Data Roles", 2, "jobs_salary_distribution"),
    SlideS("Median Salary Over Time", 2, "jobs_salary_by_year"),
    SlideS("Salary by Experience Level", 2, "jobs_salary_by_experience"),
    SlideS("Median Salary by Job Category", 2, "jobs_salary_by_category"),
    SlideS("Work Setting Distribution", 2, "jobs_work_setting_pie"),
    SlideS("Work Setting Over Time", 2, "jobs_work_setting_by_year"),
    SlideS("Salary Heatmap by Experience Level and Year", 2, "jobs_salary_heatmap"),
    SlideS("Median Salary by Country", 2, "jobs_salary_by_country"),
    SlideS("Key Takeaways", 3, ""),
    Stmt("save", "Tech_Workforce_Visualization.pptx", "", "", 0) >>

\* mutant: the first aggregate is moved up, ahead of the cleaning of jobs
Program_aggregate_early(sc) ==
    LET p == IF sc = "gm" THEN ProgramGM ELSE ProgramGP
    IN  [i \in DOMAIN p |-> IF i = 3 THEN p[4] ELSE IF i = 4 THEN p[3] ELSE p[i]]

Program(sc) == IF sc = "gm" THEN ProgramGM ELSE ProgramGP

-----------------------------------------------------------------------------
(* Input files *)

Str_Senior == <<"S","e","n","i","o","r">>
Str_senior_sp == <<" ","s","e","n","i","o","r">>
Str_Entry_level == <<"E","n","t","r","y","-","l","e","v","e","l">>
Str_SE == <<"S","E">>
Str_Lead == <<"L","e","a","d">>
Str_Remote == <<"R","e","m","o","t","e">>
Str_remote_sp == <<"r","e","m","o","t","e"," ">>
Str_In_person == <<"I","n","-","p","e","r","s","o","n">>
Str_ML == <<"M","L">>
Str_ml_sp == <<" ","m","l">>
Str_BI == <<"B","I">>
Str_M == <<"M">>
Str_L == <<"L">>

Date(y, m) == [y |-> y, m |-> m]

LayoffRow(co, ind, cn, d, total, perc, funds, stage) ==
    [company |-> co, industry |-> ind, country |-> cn, date |-> d,
     total_laid_off |-> total, percentage_laid_off |-> perc,
     funds_raised |-> funds, stage |-> stage]

JobRow(wy, cat, exp, ws, size, res, sal) ==
    [work_year |-> wy, job_category |-> cat, experience_level |-> exp,
     work_setting |-> ws, company_size |-> size, employee_residence |-> res,
     salary_in_usd |-> sal]

LayoffPool ==
    { LayoffRow(1, 1, 1, Date(2022, 1), 5, 10, 100, 1),
      LayoffRow(2, 1, 1, Date(2022, 3), NA, NA, NA, 2),
      LayoffRow(1, 2, 2, Date(2023, 3), 5, 50, 7, 1),
      LayoffRow(3, NA, 2, NaT, 3, 20, 5, NA),
      LayoffRow(2, 2, NA, BadDate, 2, NA, 9, 2) }

JobPool ==
    { JobRow(2022, Str_ML, Str_Senior, Str_Remote, Str_M, 1, 4),
      JobRow(2022, Str_ml_sp, Str_senior_sp, Str_remote_sp, Str_L, 1, NA),
      JobRow(2023, Str_BI, Str_Entry_level, Str_In_person, Str_M, 2, 7),
      JobRow(2022, Str_ML, Str_SE, Str_Remote, NAs, 2, 1),
      JobRow(2022, Str_ml_sp, Str_Lead, Str_In_person, Str_L, 3, 2),
      JobRow(NA, NAs, NAs, NAs, Str_L, NA, NA) }

\* a wide layoffs table: k rows of k different companies, industries and
\* countries, with totals that repeat (pattern 1) or are scattered and
\* partly missing (pattern 2)
WideTotal(pat, j) ==
    IF pat = 1 THEN j % 3
    ELSE IF j % 5 = 0 THEN NA ELSE (j * 7) % 11

WideLayoffs(k, pat) ==
    [j \in 1..k |-> LayoffRow(j, j, j, Date(2022, 1 + (j % 2)), WideTotal(pat, j), NA, NA, NA)]

\* a wide jobs table: k records of k different residences with scattered
\* salaries, the lowest in the middle of the table
WideSalary(j) == (((j + 5) * 7) % 11) + 1

WideJobs(k) ==
    [j \in 1..k |-> JobRow(2022, Str_ML, Str_Senior, Str_Remote, Str_M, j, WideSalary(j))]

File(rows) == [present |-> TRUE, rows |-> rows]
NoFile == [present |-> FALSE, rows |-> <<>>]

DefaultLayoffs == File(<<LayoffRow(1, 1, 1, Date(2022, 1), 5, 10, 100, 1),
                         LayoffRow(1, 2, 2, Date(2023, 1), 5, 50, 7, 1),
                         LayoffRow(1, 1, 2, Date(2022, 3), NA, NA, NA, 2)>>)
DefaultJobs == File(<<JobRow(2022, Str_ML, Str_Senior, Str_Remote, Str_M, 1, 4),
                      JobRow(2023, Str_BI, Str_Entry_level, Str_In_person, Str_M, 2, 7),
                      JobRow(2022, Str_BI, Str_Senior, Str_Remote, Str_L, 2, 1)>>)

NarrowLayoffs == {File(t) : t \in SeqsUpTo(LayoffPool, MaxRows)}
NarrowJobs == {File(t) : t \in SeqsUpTo(JobPool, MaxRows)}
WideLayoffFiles ==
    {File(WideLayoffs(k, pat) \o x) :
        k \in (MaxWide - 8)..MaxWide, pat \in 1..2,
        x \in {<<>>} \cup {<<r>> : r \in LayoffPool}}

WideJobFiles ==
    {File(WideJobs(k) \o x) :
        k \in (MaxResidences - 1)..MaxResidences,
        x \in {<<>>, <<JobRow(2023, Str_BI, Str_Senior, Str_Remote, Str_L, 6, 3)>>}}

\* the pairs <<layoffs.csv, jobs_in_data.csv>> a run may find
Inputs ==
    (NarrowLayoffs \X {DefaultJobs})
    \cup (WideLayoffFiles \X {DefaultJobs})
    \cup ({DefaultLayoffs} \X NarrowJobs)
    \cup ({DefaultLayoffs} \X WideJobFiles)
    \cup {<<NoFile, DefaultJobs>>, <<DefaultLayoffs, NoFile>>, <<NoFile, NoFile>>}

-----------------------------------------------------------------------------
(* The run *)

NoAggs == [n \in {} |-> NA]
NoDeck == [saved |-> FALSE, slides |-> <<>>]
ErrorMessage == "Error: file not found. Please ensure csv files are in the folder."

Init ==
    /\ script \in {"gm", "gp"}
    /\ sortTies \in {"stable", "reversed"}
    /\ pc = 1
    /\ status = "running"
    /\ \E inp \in Inputs : fsLayoffs = inp[1] /\ fsJobs = inp[2]
    /\ layoffs = <<>>
    /\ jobs = <<>>
    /\ aggs = NoAggs
    /\ images = {}
    /\ figure_paths = NoAggs
    /\ prs = <<>>
    /\ deck = NoDeck
    /\ out = ""
    /\ log = <<>>

\* mutant: the script carries on after an exception
Running_on_error == status # "done" /\ status # "exited" /\ pc <= Len(Program(script))

\* the interpreter runs the statement at pc unless the run has ended
Running == status = "running" /\ pc <= Len(Program(script))
stmt == Program(script)[pc]

\* the statement at pc has run
Step == pc' = pc + 1 /\ log' = Append(log, <<stmt.op, stmt.arg>>)

\* the statement at pc raised and nothing caught it
Crash == status' = "crashed" /\ UNCHANGED <<pc, log>>

\* mutant: no script catches the FileNotFoundError
HandlesFileNotFound_never(sc) == FALSE

\* mutant: every chart is saved under one file name
save_plot_one_name(files, filename) == files \cup {"figure.png"}

\* project_gm wraps the two read_csv calls in try/except FileNotFoundError,
\* prints a message and calls exit(); project_gp has no handler
HandlesFileNotFound(sc) == sc = "gm"

\* plt.savefig(os.path.join(dir, filename)): the files on disk afterwards
save_plot(files, filename) == files \cup {filename}

\* pd.read_csv of both files
Load ==
    /\ Running /\ stmt.op = "load"
    /\ IF fsLayoffs.present /\ fsJobs.present
       THEN /\ layoffs' = fsLayoffs.rows
            /\ jobs' = fsJobs.rows
            /\ Step
            /\ UNCHANGED <<status, out>>
       ELSE /\ IF HandlesFileNotFound(script)
               THEN status' = "exited" /\ out' = ErrorMessage
               ELSE status' = "crashed" /\ out' = out
            /\ UNCHANGED <<pc, log, layoffs, jobs>>
    /\ UNCHANGED <<script, sortTies, fsLayoffs, fsJobs, aggs, images,
                   figure_paths, prs, deck>>

CleanLayoffs ==
    /\ Running /\ stmt.op = "clean_layoffs"
    /\ IF ToDatetimeRaises(script, layoffs)
       THEN Crash /\ UNCHANGED layoffs
       ELSE layoffs' = clean_layoffs(script, layoffs, sortTies) /\ Step
            /\ UNCHANGED status
    /\ UNCHANGED <<script, sortTies, fsLayoffs, fsJobs, jobs, aggs, images,
                   figure_paths, prs, deck, out>>

CleanJobs ==
    /\ Running /\ stmt.op = "clean_jobs"
    /\ IF AsTypeIntRaises(jobs)
       THEN Crash /\ UNCHANGED jobs
       ELSE jobs' = clean_jobs(script, jobs) /\ Step /\ UNCHANGED status
    /\ UNCHANGED <<script, sortTies, fsLayoffs, fsJobs, layoffs, aggs, images,
                   figure_paths, prs, deck, out>>

Aggregate ==
    /\ Running /\ stmt.op = "agg"
    /\ aggs' = (stmt.arg :> ComputeAgg(script, stmt.arg, layoffs, jobs, aggs, sortTies))
               @@ aggs
    /\ Step
    /\ UNCHANGED <<script, sortTies, status, fsLayoffs, fsJobs, layoffs, jobs,
                   images, figure_paths, prs, deck, out>>

\* project_gp, line 221: experience_level_clean becomes a pd.Categorical
Recast ==
    /\ Running /\ stmt.op = "recast"
    /\ jobs' = recast(jobs)
    /\ Step
    /\ UNCHANGED <<script, sortTies, status, fsLayoffs, fsJobs, layoffs, aggs,
                   images, figure_paths, prs, deck, out>>

\* draw one chart and save it (save_plot / save_current_fig); reading an
\* aggregate that was never computed is a NameError
Render ==
    /\ Running /\ stmt.op = "render"
    /\ IF stmt.uses # "" /\ stmt.uses \notin DOMAIN aggs
       THEN Crash /\ UNCHANGED <<aggs, images, figure_paths>>
       ELSE /\ aggs' = IF stmt.plot = "" THEN aggs
                       ELSE (stmt.plot :> ComputeAgg(script, stmt.plot, layoffs, jobs,
                                                     aggs, sortTies)) @@ aggs
            /\ images' = save_plot(images, stmt.arg)
            /\ figure_paths' = IF stmt.key = "" THEN figure_paths
                               ELSE (stmt.key :> stmt.arg) @@ figure_paths
            /\ Step
            /\ UNCHANGED status
    /\ UNCHANGED <<script, sortTies, fsLayoffs, fsJobs, layoffs, jobs, prs, deck, out>>

\* prs = Presentation()
NewPresentation ==
    /\ Running /\ stmt.op = "prs"
    /\ prs' = <<>>
    /\ Step
    /\ UNCHANGED <<script, sortTies, status, fsLayoffs, fsJobs, layoffs, jobs, aggs,
                   images, figure_paths, deck, out>>

Slide(title, nb, image) == [title |-> title, nb |-> nb, image |-> image]

\* mutant: the image is looked up in the wrong place and never found
Picture_not_found(sc, ref, files, paths) == ""

\* the picture a slide gets: project_gm embeds the file if it exists,
\* project_gp the path figure_paths holds for the key
Picture(sc, ref, files, paths) ==
    IF ref = "" THEN ""
    ELSE IF sc = "gm" THEN (IF ref \in files THEN ref ELSE "")
    ELSE IF ref \in DOMAIN paths THEN paths[ref] ELSE ""

\* project_gm, Slide 1: the title slide
TitleSlide ==
    /\ Running /\ stmt.op = "title_slide"
    /\ prs' = Append(prs, Slide(stmt.title, 0, ""))
    /\ Step
    /\ UNCHANGED <<script, sortTies, status, fsLayoffs, fsJobs, layoffs, jobs, aggs,
                   images, figure_paths, deck, out>>

\* add_content_slide / add_title_and_content
AddSlide ==
    /\ Running /\ stmt.op = "slide"
    /\ prs' = Append(prs, Slide(stmt.title, stmt.nb,
                                Picture(script, stmt.arg, images, figure_paths)))
    /\ Step
    /\ UNCHANGED <<script, sortTies, status, fsLayoffs, fsJobs, layoffs, jobs, aggs,
                   images, figure_paths, deck, out>>

\* prs.save(...): the last statement
SaveDeck ==
    /\ Running /\ stmt.op = "save"
    /\ deck' = [saved |-> TRUE, slides |-> prs]
    /\ Step
    /\ status' = "done"
    /\ UNCHANGED <<script, sortTies, fsLayoffs, fsJobs, layoffs, jobs, aggs,
                   images, figure_paths, prs, out>>

\* any statement after the load may raise (a missing column, a bad type, a
\* full disk): the exception is not caught and the run ends there
Fail ==
    /\ Running /\ stmt.op # "load"
    /\ Crash
    /\ UNCHANGED <<script, sortTies, fsLayoffs, fsJobs, layoffs, jobs, aggs,
                   images, figure_paths, prs, deck, out>>

Next ==
    \/ Load
    \/ CleanLayoffs
    \/ CleanJobs
    \/ Aggregate
    \/ Recast
    \/ Render
    \/ NewPresentation
    \/ TitleSlide
    \/ AddSlide
    \/ SaveDeck
    \/ Fail

Spec == Init /\ [][Next]_vars

-----------------------------------------------------------------------------
(* What the claims speak of *)

Executed(op) == {i \in DOMAIN log : log[i][1] = op}
Charts(sc) == {i \in DOMAIN Program(sc) : Program(sc)[i].op = "render"}
DeckOps == {"prs", "title_slide", "slide", "save"}
SlideStmts(sc) == {i \in DOMAIN Program(sc) : Program(sc)[i].op \in {"title_slide", "slide"}}
FileMissing == ~fsLayoffs.present \/ ~fsJobs.present

JobsAggs ==
    {"salary_hist", "salary_year", "yearly_salary", "exp_salary", "country_sal",
     "median_salary_by_country", "median_salary_by_category", "ws_counts",
     "setting_counts", "ws_year", "pivot_setting_year_norm", "heatmap_data",
     "pivot_heat"}

\* the jobs file without its missing-salary records
RECURSIVE WithoutMissingSalary(_)
WithoutMissingSalary(t) ==
    IF t = <<>> THEN <<>>
    ELSE IF Head(t).salary_in_usd = NA THEN WithoutMissingSalary(Tail(t))
    ELSE <<Head(t)>> \o WithoutMissingSalary(Tail(t))

\* the jobs table the run would hold at this point had the file held no
\* missing-salary record
JobsOfFilteredFile ==
    LET c == clean_jobs(script, WithoutMissingSalary(fsJobs.rows))
    IN  IF Executed("recast") # {} THEN recast(c) ELSE c

\* the statement that ran last computed aggregate n
JustComputed(n) ==
    /\ status = "running" /\ log # <<>>
    /\ LET st == Program(script)[Len(log)]
       IN  \/ st.op = "agg" /\ st.arg = n
           \/ st.op = "render" /\ st.plot = n

(* C1: a job record with a missing salary contributes to no jobs aggregate: *)
(* every jobs aggregate, when the run has computed it and when the run has  *)
(* ended, equals the same aggregate computed from the file with all         *)
(* missing-salary records removed.                                          *)
C1_MissingSalaryNotAggregated ==
    \A n \in DOMAIN aggs \cap JobsAggs :
        (JustComputed(n) \/ status = "done") =>
            aggs[n] = ComputeAgg(script, n, layoffs, JobsOfFilteredFile, aggs, sortTies)

\* a run that computed the last jobs aggregate from a file that holds a
\* missing-salary record besides records it retains
C1_Witness ==
    /\ \E i \in DOMAIN fsJobs.rows : fsJobs.rows[i].salary_in_usd = NA
    /\ Len(jobs) >= 2
    /\ {"heatmap_data", "median_salary_by_country"} \cap DOMAIN aggs # {}

(* C2 as claimed: in both scripts a missing input file is handled by the    *)
(* script itself, which reports a message and terminates, and no chart and  *)
(* no deck is written.                                                      *)
C2_Original ==
    (FileMissing /\ status # "running") =>
        /\ status = "exited"
        /\ out = ErrorMessage
        /\ images = {}
        /\ ~deck.saved

(* C2 amended: with a missing input file the run ends at the load step and  *)
(* writes no chart and no deck; project_gm handles the failure itself       *)
(* (message, exit), project_gp does not: the exception propagates uncaught. *)
C2_MissingFileEndsRun ==
    FileMissing =>
        /\ pc = 1 /\ log = <<>>
        /\ images = {} /\ ~deck.saved /\ prs = <<>>
        /\ status # "running" =>
              IF script = "gm" THEN status = "exited" /\ out = ErrorMessage
              ELSE status = "crashed" /\ out = ""

C2_Witness == FileMissing /\ status = "exited" /\ ~fsJobs.present /\ fsLayoffs.present

(* C3: a run that reaches the end has written as many image files as the    *)
(* script defines charts (13 and 16) and saved a deck of as many slides as  *)
(* it defines (18 and 20), whatever the input.                              *)
C3_OutputCounts ==
    status = "done" =>
        /\ Cardinality(images) = Cardinality(Charts(script))
        /\ Cardinality(images) = IF script = "gm" THEN 13 ELSE 16
        /\ deck.saved
        /\ Len(deck.slides) = Cardinality(SlideStmts(script))
        /\ Len(deck.slides) = IF script = "gm" THEN 18 ELSE 20

C3_Witness ==
    status = "done" /\ script = "gp" /\ fsLayoffs.rows = <<>> /\ deck.saved

(* C4: every chart image written is embedded by exactly one slide of the    *)
(* saved deck; every image a slide refers to was written earlier in the     *)
(* run and is the one embedded; every chart slide has a title and 2 to 4    *)
(* bullets.                                                                 *)
C4_ChartSlides ==
    /\ \A i \in DOMAIN prs :
          prs[i].image # "" =>
             /\ prs[i].image \in images
             /\ prs[i].nb \in 2..4
             /\ prs[i].title # ""
    /\ \A i \in Executed("slide") :
          log[i][2] # "" =>
             \E j \in Executed("render") :
                /\ j < i
                /\ Program(script)[j].arg = log[j][2]
                /\ log[i][2] = IF script = "gm" THEN Program(script)[j].arg
                               ELSE Program(script)[j].key
                /\ \E k \in DOMAIN prs : prs[k].image = log[j][2]
    /\ deck.saved =>
          \A f \in images :
             Cardinality({i \in DOMAIN deck.slides : deck.slides[i].image = f}) = 1

C4_Witness ==
    /\ deck.saved /\ script = "gm"
    /\ \E i \in DOMAIN deck.slides : deck.slides[i].image = "Slide_18_SalaryHeatmap.png"

-----------------------------------------------------------------------------
(* Grouped sums and medians, computed by hand from the tables in memory *)

\* the layoffs aggregates that are grouped sums, and the column each groups by
LayoffSums(sc) ==
    IF sc = "gm"
    THEN {"monthly_layoffs", "yearly_layoffs", "top_companies", "ind_layoffs",
          "country_layoffs"}
    ELSE {"monthly_layoffs", "yearly_layoffs", "company_layoffs", "industry_layoffs",
          "top_industries", "country_layoffs", "top_countries_layoffs"}

LayoffKey(n, r) ==
    CASE n = "monthly_layoffs" -> r.year_month
      [] n = "yearly_layoffs" -> r.year
      [] n \in {"top_companies", "company_layoffs"} -> r.company
      [] n \in {"ind_layoffs", "industry_layoffs", "top_industries"} -> r.industry
      [] n \in {"country_layoffs", "top_countries_layoffs"} -> r.country

LayoffGroups(n) == {LayoffKey(n, layoffs[i]) : i \in DOMAIN layoffs} \ {NA}

RECURSIVE TotalOver(_)
TotalOver(S) ==
    IF S = {} THEN 0
    ELSE LET i == CHOOSE x \in S : TRUE
             v == layoffs[i].total_laid_off
         IN  (IF v = NA THEN 0 ELSE v) + TotalOver(S \ {i})

\* the sum of total_laid_off over the loaded records of group k, each record
\* once, a missing count as zero
HandTotal(n, k) == TotalOver({i \in DOMAIN layoffs : LayoffKey(n, layoffs[i]) = k})

\* twice the median of the salaries of the job records in S, by rank: the
\* values that have at least half of the values on either side
HandMedian2(S) ==
    LET n == Cardinality(S)
        Sal(i) == jobs[i].salary_in_usd
        Stat(k) == CHOOSE v \in {Sal(i) : i \in S} :
                      /\ Cardinality({i \in S : Sal(i) < v}) < k
                      /\ Cardinality({i \in S : Sal(i) <= v}) >= k
    IN  IF n = 0 THEN NA ELSE Stat((n + 1) \div 2) + Stat(n \div 2 + 1)

\* the salary aggregates that are medians per key, and the key of a record
SalaryMedians(sc) ==
    IF sc = "gm" THEN {"salary_year", "country_sal"}
    ELSE {"yearly_salary", "median_salary_by_country"}

SalaryKey(n, r) ==
    IF n \in {"salary_year", "yearly_salary"} THEN r.work_year
    ELSE r.employee_residence

Level(r) == IF script = "gm" THEN r.experience_level ELSE r.experience_level_clean

SalaryHeatmaps == {"heatmap_data", "pivot_heat"}

(* C6: each grouped layoffs aggregate gives for each of its keys the sum of *)
(* total_laid_off over all loaded layoff records with that key, each record *)
(* once and a missing count as zero, and an aggregate that is not cut to a  *)
(* top N has every key; each grouped salary aggregate gives for each key    *)
(* the median of salary_in_usd over the retained job records with that key. *)
C6_GroupedSumsAndMedians ==
    /\ \A n \in DOMAIN aggs \cap LayoffSums(script) :
          (JustComputed(n) \/ status = "done") =>
             /\ \A i \in DOMAIN aggs[n] :
                   /\ aggs[n][i][1] \in LayoffGroups(n)
                   /\ aggs[n][i][2] = HandTotal(n, aggs[n][i][1])
                   /\ \A j \in DOMAIN aggs[n] : aggs[n][j][1] = aggs[n][i][1] => j = i
             /\ n \in {"monthly_layoffs", "yearly_layoffs", "industry_layoffs"}
                   => Len(aggs[n]) = Cardinality(LayoffGroups(n))
    /\ \A n \in DOMAIN aggs \cap SalaryMedians(script) :
          (JustComputed(n) \/ status = "done") =>
             \A i \in DOMAIN aggs[n] :
                /\ aggs[n][i][2] =
                      HandMedian2({r \in DOMAIN jobs : SalaryKey(n, jobs[r]) = aggs[n][i][1]})
                /\ aggs[n][i][2] # NA
                /\ \A j \in DOMAIN aggs[n] : aggs[n][j][1] = aggs[n][i][1] => j = i
    /\ \A n \in DOMAIN aggs \cap SalaryHeatmaps :
          (JustComputed(n) \/ status = "done") =>
             \A ey \in DOMAIN aggs[n].cell :
                aggs[n].cell[ey] =
                   HandMedian2({r \in DOMAIN jobs :
                                   Level(jobs[r]) = ey[1] /\ jobs[r].work_year = ey[2]})

\* a finished run with a company whose records include a missing count and
\* a year whose median salary falls between two records
C6_Witness ==
    /\ status = "done"
    /\ \E i, j \in DOMAIN layoffs :
          /\ layoffs[i].company = layoffs[j].company
          /\ layoffs[i].total_laid_off = NA /\ layoffs[j].total_laid_off > 0
    /\ \E n \in DOMAIN aggs \cap SalaryMedians(script) :
          \E i \in DOMAIN aggs[n] : aggs[n][i][2] % 2 = 1

TopN(sc, n) ==
    CASE n \in {"top_companies", "company_layoffs"} -> TopCompanies
      [] n \in {"ind_layoffs", "top_industries"} -> TopIndustries
      [] n = "top_countries_layoffs" \/ (n = "country_layoffs" /\ sc = "gm") -> TopCountries
      [] OTHER -> 0

TopAggs(sc) == {n \in LayoffSums(sc) : TopN(sc, n) > 0}

Min(a, b) == IF a < b THEN a ELSE b

(* C9: each top-N layoffs aggregate (15 companies, 12 industries, 10        *)
(* countries) has min(N, number of groups) entries, in non-increasing order *)
(* of their totals, and no group left out has a total strictly greater than *)
(* a group kept.                                                            *)
C9_TopN ==
    \A n \in DOMAIN aggs \cap TopAggs(script) :
        (JustComputed(n) \/ status = "done") =>
            LET kept == {aggs[n][i][1] : i \in DOMAIN aggs[n]}
            IN  /\ Len(aggs[n]) = Min(TopN(script, n), Cardinality(LayoffGroups(n)))
                /\ Cardinality(kept) = Len(aggs[n])
                /\ kept \subseteq LayoffGroups(n)
                /\ \A i, j \in DOMAIN aggs[n] :
                      i < j => HandTotal(n, aggs[n][i][1]) >= HandTotal(n, aggs[n][j][1])
                /\ \A g \in LayoffGroups(n) \ kept : \A k \in kept :
                      HandTotal(n, g) <= HandTotal(n, k)

\* a run that cut the companies to 15 with a company left out whose total
\* equals that of a company kept
C9_Witness ==
    /\ JustComputed("top_companies") \/ JustComputed("company_layoffs")
    /\ Cardinality(LayoffGroups("top_companies")) > TopCompanies
    /\ LET n == IF script = "gm" THEN "top_companies" ELSE "company_layoffs"
       IN  \E g \in LayoffGroups(n) \ {aggs[n][i][1] : i \in DOMAIN aggs[n]} :
              HandTotal(n, g) = aggs[n][Len(aggs[n])][2]

-----------------------------------------------------------------------------
(* The order of the stages *)

\* the stage a statement belongs to
StageRank(op) ==
    CASE op = "load" -> 1
      [] op \in {"clean_layoffs", "clean_jobs", "recast"} -> 2
      [] op = "agg" -> 3
      [] op = "render" -> 4
      [] op \in DeckOps -> 5

\* the statements that ran, by position, which are computations of aggregates
Computed == Executed("agg")
Rendered == Executed("render")
BuiltDeck == {i \in DOMAIN log : log[i][1] \in DeckOps}

(* C7 as claimed: the stages load, clean, aggregate, render, build deck run *)
(* strictly one after the other: no statement of a later stage runs before  *)
(* a statement of an earlier stage.                                         *)
C7_Original ==
    \A i, j \in DOMAIN log : i < j => StageRank(log[i][1]) <= StageRank(log[j][1])

(* C7 amended: the load runs first; both tables are cleaned before the      *)
(* first aggregate or chart, except that project_gp recasts the experience  *)
(* level column after the layoffs charts and two jobs charts, before the    *)
(* first statement that reads it; aggregation and rendering alternate chart *)
(* by chart, each chart being rendered after the aggregate it draws was     *)
(* computed; the deck is built after every chart was rendered.              *)
C7_StageOrder ==
    /\ log # <<>> => log[1][1] = "load"
    /\ \A i \in Executed("clean_layoffs") \cup Executed("clean_jobs") :
          \A j \in Computed \cup Rendered : i < j
    /\ \A j \in Rendered :
          Program(script)[j].uses # "" =>
             \E i \in Computed : i < j /\ log[i][2] = Program(script)[j].uses
    /\ \A i \in Executed("recast") :
          /\ script = "gp"
          /\ \E j \in Computed : j < i
          /\ \A j \in DOMAIN log :
                /\ log[j][1] = "agg" /\ log[j][2] = "pivot_heat" => i < j
                /\ log[j][1] = "render" /\ Program(script)[j].plot = "exp_salary" => i < j
    /\ script = "gm" => Executed("recast") = {}
    /\ BuiltDeck # {} =>
          /\ Charts(script) \subseteq Rendered
          /\ \A i \in Computed \cup Rendered \cup Executed("recast") :
                \A j \in BuiltDeck : i < j

\* a complete run of project_gp, which recast the column between two charts
C7_Witness ==
    /\ status = "done" /\ script = "gp"
    /\ \E i \in Executed("recast") : \E j, k \in Rendered : j < i /\ i < k

-----------------------------------------------------------------------------
(* Failures *)

ChartFiles(sc) == {Program(sc)[i].arg : i \in Charts(sc)}

(* C8: once a statement after the load has failed, the run is over: no      *)
(* chart is rendered, no slide is added and no deck is written after the    *)
(* failure; a deck is written only by a run that rendered every chart.      *)
C8_FailureAborts ==
    /\ [](deck.saved => status = "done" /\ ChartFiles(script) \subseteq images)
    /\ [](status = "crashed" => ~deck.saved)
    /\ [][status = "crashed" =>
             /\ status' = "crashed"
             /\ images' = images /\ prs' = prs /\ deck' = deck
             /\ aggs' = aggs /\ log' = log]_vars

\* a run that failed after it had rendered a chart, with both files present
C8_Witness ==
    /\ status = "crashed" /\ ~FileMissing
    /\ images # {} /\ images # ChartFiles(script)
    /\ ~deck.saved

-----------------------------------------------------------------------------
(* The tables after cleaning *)

CleaningDone == Executed("clean_layoffs") # {} /\ Executed("clean_jobs") # {}

(* C10 as claimed: once the cleaning stage has finished, no step changes    *)
(* the layoffs table or the jobs table.                                     *)
C10_Original ==
    [][CleaningDone => (layoffs' = layoffs /\ jobs' = jobs)]_vars

(* C10 amended: once the cleaning statements have run, no step changes the  *)
(* layoffs table, and no step of project_gm changes the jobs table; in      *)
(* project_gp exactly one later step changes the jobs table, the recast of  *)
(* the experience level column: it adds and removes no record and changes   *)
(* no other field, and an experience level is kept or becomes missing.      *)
C10_TablesAfterCleaning ==
    [][CleaningDone =>
          /\ layoffs' = layoffs
          /\ jobs' # jobs =>
                /\ script = "gp" /\ stmt.op = "recast"
                /\ Len(jobs') = Len(jobs)
                /\ \A i \in DOMAIN jobs :
                      /\ [jobs'[i] EXCEPT !.experience_level_clean =
                                             jobs[i].experience_level_clean] = jobs[i]
                      /\ jobs'[i].experience_level_clean
                            \in {jobs[i].experience_level_clean, NAs}]_vars

\* project_gp after the recast, holding a record whose experience level the
\* recast made missing
C10_Witness ==
    /\ script = "gp" /\ Executed("recast") # {}
    /\ \E i \in DOMAIN jobs :
          /\ jobs[i].experience_level_clean = NAs
          /\ jobs[i].experience_level # NAs

-----------------------------------------------------------------------------
(* The numbering of project_gm's slides *)

\* the number NN in the file name Slide_NN_*.png of a chart of project_gm,
\* which is also the number its comments give the slide
SlideNumber(file) ==
    CASE file = "Slide_06_LayoffsMonthly.png" -> 6
      [] file = "Slide_07_LayoffsYearly.png" -> 7
      [] file = "Slide_08_TopCompanies.png" -> 8
      [] file = "Slide_09_IndustryLayoffs.png" -> 9
      [] file = "Slide_10_PercBoxplot.png" -> 10
      [] file = "Slide_11_CountryLayoffs.png" -> 11
      [] file = "Slide_12_SalaryHist.png" -> 12
      [] file = "Slide_13_SalaryTrend.png" -> 13
      [] file = "Slide_14_ExpSalary.png" -> 14
      [] file = "Slide_15_CountrySalary.png" -> 15
      [] file = "Slide_16_WorkSettingPie.png" -> 16
      [] file = "Slide_17_WorkSettingStack.png" -> 17
      [] file = "Slide_18_SalaryHeatmap.png" -> 18
      [] OTHER -> 0

(* C13: in the deck project_gm saves, the image Slide_NN_*.png is embedded  *)
(* in the slide at position NN, for NN from 6 to 18.                        *)
C13_SlideAtItsNumber ==
    (script = "gm" /\ deck.saved) =>
        \A f \in images :
            /\ SlideNumber(f) \in 6..18
            /\ SlideNumber(f) <= Len(deck.slides)
            /\ deck.slides[SlideNumber(f)].image = f

-----------------------------------------------------------------------------
(* Monthly and yearly totals *)

\* the sum of the values of a Series
SeriesTotal(ps) == SumSeq([i \in 1..Len(ps) |-> ps[i][2]])

(* C14: the monthly layoff totals and the yearly layoff totals add up to    *)
(* the same number, whatever the layoffs table holds: a record is counted   *)
(* in both aggregates or in neither.                                        *)
C14_MonthlyEqualsYearly ==
    {"monthly_layoffs", "yearly_layoffs"} \subseteq DOMAIN aggs =>
        /\ SeriesTotal(aggs["monthly_layoffs"]) = SeriesTotal(aggs["yearly_layoffs"])
        /\ \A i \in DOMAIN layoffs :
              (layoffs[i].year_month \in Range(KeysOf(aggs["monthly_layoffs"])))
                 = (layoffs[i].year \in Range(KeysOf(aggs["yearly_layoffs"])))

-----------------------------------------------------------------------------
(* The layoffs heatmap of project_gp *)

\* the layoff total of year y and calendar month m over the loaded records
MonthTotal(y, m) ==
    TotalOver({i \in DOMAIN layoffs : layoffs[i].year = y /\ layoffs[i].month = m})

(* C15: in project_gp's year-by-month heatmap the column under the label m  *)
(* (1 to 12) holds, for each year shown, the layoff total of calendar month *)
(* m, and 0 for a month without any layoff record.                          *)
C15_HeatmapMonthLabels ==
    (script = "gp" /\ JustComputed("pivot")) =>
        \A m \in 1..12 :
            imshow_column(aggs["pivot"], xtick_position(m))
               = [y \in Range(aggs["pivot"].index) |-> MonthTotal(y, m)]

-----------------------------------------------------------------------------
(* Experience levels *)

\* the four levels as the claim spells them
ClaimedLevels ==
    << <<"E","n","t","r","y","-","L","e","v","e","l">>,
       <<"M","i","d","-","L","e","v","e","l">>,
       <<"S","e","n","i","o","r">>,
       <<"E","x","e","c","u","t","i","v","e">> >>

\* the four levels as project_gp spells them
LevelsGP ==
    << <<"E","n","t","r","y","-","l","e","v","e","l">>,
       <<"M","i","d","-","l","e","v","e","l">>,
       <<"S","e","n","i","o","r">>,
       <<"E","x","e","c","u","t","i","v","e">> >>

Abbreviations == << <<"E","n">>, <<"M","i">>, <<"S","e">>, <<"E","x">> >>

\* the records of the jobs file that the cleaning retains, as read
RetainedInput == WithoutMissingSalary(fsJobs.rows)

JobsCleaned == Executed("clean_jobs") # {}

ByLevel == {"exp_salary"}

(* C11 as claimed: after cleaning, the experience level of every retained   *)
(* job record is one of Entry-Level, Mid-Level, Senior, Executive, whatever *)
(* the input file holds.                                                    *)
C11_Original ==
    JobsCleaned => \A i \in DOMAIN jobs : Level(jobs[i]) \in Range(ClaimedLevels)

(* C11 amended: the cleaning does not constrain the experience level.       *)
(* project_gm trims and title-cases it, maps En, Mi, Se, Ex to Entry-Level, *)
(* Mid-Level, Senior, Executive and leaves every other string as it is;     *)
(* project_gp keeps the trimmed string until its recast, after which a      *)
(* level is one of Entry-level, Mid-level, Senior, Executive or missing.    *)
(* The charts by experience level show only the script's four levels, in    *)
(* the order entry, mid, senior, executive, with the salaries of exactly    *)
(* the records that have that level.                                        *)
C11_ExperienceLevels ==
    /\ exp_order("gm") = ClaimedLevels /\ exp_order("gp") = LevelsGP
    /\ (script = "gm" /\ JobsCleaned) =>
          \A i \in DOMAIN jobs :
             LET raw == StrTitle(StrStrip(RetainedInput[i].experience_level))
             IN  /\ \A k \in 1..4 :
                       raw \in {ClaimedLevels[k], Abbreviations[k]}
                          => jobs[i].experience_level = ClaimedLevels[k]
                 /\ raw \notin Range(ClaimedLevels) \cup Range(Abbreviations)
                       => jobs[i].experience_level = raw
    /\ (script = "gp" /\ JobsCleaned) =>
          \A i \in DOMAIN jobs :
             LET raw == StrStrip(RetainedInput[i].experience_level)
             IN  jobs[i].experience_level_clean =
                    IF Executed("recast") = {} \/ raw \in Range(LevelsGP)
                    THEN raw ELSE NAs
    /\ \A n \in DOMAIN aggs \cap ByLevel :
          (JustComputed(n) \/ status = "done") =>
             LET Shown(e) == e \in Range(KeysOf(aggs[n]))
             IN  /\ KeysOf(aggs[n]) = SelectSeq(exp_order(script), Shown)
                 /\ script = "gm" => KeysOf(aggs[n]) = ClaimedLevels
                 /\ \A k \in DOMAIN aggs[n] :
                       Len(aggs[n][k][2]) =
                          Cardinality({i \in DOMAIN jobs : Level(jobs[i]) = aggs[n][k][1]})
                 /\ \A i \in DOMAIN jobs :
                       Level(jobs[i]) \in Range(exp_order(script))
                          => Shown(Level(jobs[i]))
    /\ \A n \in DOMAIN aggs \cap SalaryHeatmaps :
          (JustComputed(n) \/ status = "done") => aggs[n].index = exp_order(script)

\* a finished run of project_gm that retains a record whose level is none
\* of the four and a record whose level was given as an abbreviation
C11_Witness ==
    /\ status = "done" /\ script = "gm"
    /\ \E i, j \in DOMAIN jobs :
          /\ jobs[i].experience_level = Str_Lead
          /\ RetainedInput[j].experience_level = Str_SE
          /\ jobs[j].experience_level = ClaimedLevels[3]

-----------------------------------------------------------------------------
(* Labels *)

LabelColumns == {"job_category", "experience_level", "work_setting"}

\* the column of the cleaned table that the aggregates of a script read for
\* an input column
UsedColumn(sc, col) ==
    IF sc = "gm" THEN col
    ELSE CASE col = "job_category" -> "job_category_clean"
           [] col = "experience_level" -> "experience_level_clean"
           [] col = "work_setting" -> "work_setting_clean"

\* the aggregates whose keys are labels, and the input column of the label
LabelAggs(sc) ==
    IF sc = "gm" THEN {<<"ws_counts", "work_setting">>}
    ELSE {<<"setting_counts", "work_setting">>,
          <<"median_salary_by_category", "job_category">>}

(* C12 as claimed: in both scripts the job category, experience level and   *)
(* work setting the aggregates use are the input strings trimmed and        *)
(* title-cased, so inputs that differ only in surrounding whitespace or in  *)
(* letter case fall into the same group.                                    *)
C12_Original ==
    JobsCleaned =>
        \A i \in DOMAIN jobs : \A col \in LabelColumns :
            jobs[i][UsedColumn(script, col)] = StrTitle(StrStrip(RetainedInput[i][col]))

(* C12 amended: project_gm uses the input strings trimmed and title-cased   *)
(* (an experience level that is then one of En, Mi, Se, Ex is replaced by   *)
(* the full name), so inputs that differ only in surrounding whitespace or  *)
(* letter case fall into the same group.  project_gp only trims: inputs     *)
(* that differ only in surrounding whitespace fall into the same group,     *)
(* inputs that differ in letter case stay different labels, and after the   *)
(* recast an experience level outside the four categories is missing.       *)
C12_LabelNormalisation ==
    /\ (script = "gm" /\ JobsCleaned) =>
          /\ \A i \in DOMAIN jobs : \A col \in LabelColumns \ {"experience_level"} :
                jobs[i][col] = StrTitle(StrStrip(RetainedInput[i][col]))
          /\ \A i, j \in DOMAIN jobs : \A col \in LabelColumns :
                StrTitle(StrStrip(RetainedInput[i][col]))
                      = StrTitle(StrStrip(RetainedInput[j][col]))
                   => jobs[i][col] = jobs[j][col]
    /\ (script = "gp" /\ JobsCleaned) =>
          /\ \A i \in DOMAIN jobs : \A col \in LabelColumns \ {"experience_level"} :
                jobs[i][UsedColumn("gp", col)] = StrStrip(RetainedInput[i][col])
          /\ \A i, j \in DOMAIN jobs : \A col \in LabelColumns :
                StrStrip(RetainedInput[i][col]) = StrStrip(RetainedInput[j][col])
                   => jobs[i][UsedColumn("gp", col)] = jobs[j][UsedColumn("gp", col)]
    /\ \A a \in LabelAggs(script) :
          (a[1] \in DOMAIN aggs /\ (JustComputed(a[1]) \/ status = "done")) =>
             LET Norm(v) == IF script = "gm" THEN StrTitle(StrStrip(v)) ELSE StrStrip(v)
             IN  Range(KeysOf(aggs[a[1]]))
                    = {Norm(RetainedInput[i][a[2]]) : i \in DOMAIN RetainedInput} \ {NAs}

\* project_gp having grouped the salaries by job category, with two
\* categories that differ only in letter case
C12_Witness ==
    /\ script = "gp" /\ JustComputed("median_salary_by_category")
    /\ {Str_ML, <<"m","l">>} \subseteq Range(KeysOf(aggs["median_salary_by_category"]))

-----------------------------------------------------------------------------
(* Work setting by year *)

SettingByYear == {"ws_year", "pivot_setting_year_norm"}

\* the retained job records of year y that have a work setting in S
SettingRecords(y, S) ==
    {i \in DOMAIN jobs :
        /\ jobs[i].work_year = y
        /\ jobs[i][UsedColumn(script, "work_setting")] \in S}

RECURSIVE SumOver(_, _)
SumOver(f, S) ==
    IF S = {} THEN 0
    ELSE LET x == CHOOSE x \in S : TRUE IN f[x] + SumOver(f, S \ {x})

(* C16: in the work-setting-by-year aggregate, for every year in it, the    *)
(* share of a work setting is the count of the retained job records of that *)
(* year with that setting over the count of that year's records in the      *)
(* aggregate; each share lies between 0 and 1 and those of a year sum to 1. *)
C16_SettingShares ==
    \A n \in DOMAIN aggs \cap SettingByYear :
        (JustComputed(n) \/ status = "done") =>
            LET tb == aggs[n]
                ys == Range(tb.index)
                ws == Range(tb.columns)
            IN  /\ ys = {jobs[i].work_year : i \in
                           {j \in DOMAIN jobs :
                               jobs[j][UsedColumn(script, "work_setting")] # NAs}}
                /\ \A y \in ys :
                      /\ \A w \in ws :
                            /\ tb.cell[<<y, w>>][1] = Cardinality(SettingRecords(y, {w}))
                            /\ tb.cell[<<y, w>>][2] = Cardinality(SettingRecords(y, ws))
                            /\ tb.cell[<<y, w>>][2] > 0
                            /\ 0 <= tb.cell[<<y, w>>][1]
                            /\ tb.cell[<<y, w>>][1] <= tb.cell[<<y, w>>][2]
                      /\ \A v \in ws :
                            SumOver([w \in ws |-> tb.cell[<<y, w>>][1]], ws)
                               = tb.cell[<<y, v>>][2]

\* a year with two work settings, in a table of more than one year
C16_Witness ==
    \E n \in DOMAIN aggs \cap SettingByYear :
        /\ JustComputed(n)
        /\ Len(aggs[n].index) >= 2
        /\ \E y \in Range(aggs[n].index) : \E v, w \in Range(aggs[n].columns) :
              /\ v # w
              /\ aggs[n].cell[<<y, v>>][1] > 0 /\ aggs[n].cell[<<y, w>>][1] > 0

-----------------------------------------------------------------------------
(* Median salary by country, in the two scripts *)

ByCountry == {"country_sal", "median_salary_by_country"}

\* the rows each script computes for the chart from the jobs file of the run
CountryRowsGM ==
    AggGM("country_sal", layoffs, clean_jobs_gm(fsJobs.rows), sortTies)
CountryRowsGP ==
    AggGP("median_salary_by_country", layoffs, clean_jobs_gp(fsJobs.rows), aggs, sortTies)

Residences == {jobs[i].employee_residence : i \in DOMAIN jobs} \ {NA}
RecordsOf(c) == {i \in DOMAIN jobs : jobs[i].employee_residence = c}

(* C17 as claimed: on the same jobs table project_gm and project_gp compute *)
(* the same rows for the chart of the median salary by country: the same    *)
(* residences, the same medians, the same order.                            *)
C17_Original ==
    \A n \in DOMAIN aggs \cap ByCountry :
        JustComputed(n) => CountryRowsGM = CountryRowsGP

(* C17 amended: on the same jobs table the two scripts compute the same     *)
(* rows when the table holds at most ten residences.  With more, both keep  *)
(* ten residences, each with the median of its salaries, in descending      *)
(* order of the median, but project_gm keeps the ten highest medians and    *)
(* project_gp the medians of the ten residences with the most records.      *)
C17_MedianSalaryByCountry ==
    \A n \in DOMAIN aggs \cap ByCountry :
        JustComputed(n) =>
            LET gm == CountryRowsGM
                gp == CountryRowsGP
                Kept(rows) == Range(KeysOf(rows))
            IN  /\ aggs[n] = IF script = "gm" THEN gm ELSE gp
                /\ Cardinality(Residences) <= TopResidences => gm = gp
                /\ Len(gm) = Min(TopResidences, Cardinality(Residences))
                /\ Len(gp) = Len(gm)
                /\ \A rows \in {gm, gp} :
                      /\ Cardinality(Kept(rows)) = Len(rows)
                      /\ \A i \in DOMAIN rows :
                            /\ rows[i][1] \in Residences
                            /\ rows[i][2] = HandMedian2(RecordsOf(rows[i][1]))
                            /\ \A j \in DOMAIN rows : i < j => rows[i][2] >= rows[j][2]
                /\ \A c \in Residences \ Kept(gm) : \A k \in Kept(gm) :
                      HandMedian2(RecordsOf(c)) <= HandMedian2(RecordsOf(k))
                /\ \A c \in Residences \ Kept(gp) : \A k \in Kept(gp) :
                      Cardinality(RecordsOf(c)) <= Cardinality(RecordsOf(k))

\* a table of more than ten residences on which the two scripts keep
\* different residences
C17_Witness ==
    \E n \in DOMAIN aggs \cap ByCountry :
        /\ JustComputed(n)
        /\ Cardinality(Residences) > TopResidences
        /\ Range(KeysOf(CountryRowsGM)) # Range(KeysOf(CountryRowsGP))

====
